---- MODULE Spec2Model ----
(***************************************************************************)
(* State-machine model of AmpFlyingCarpet                                  *)
(* (extensions/amp-fx-flying-carpet/0.1/amp-fx-flying-carpet.js).          *)
(*                                                                         *)
(* The component is driven by host callbacks.  The model keeps the         *)
(* component's own fields (children_, totalChildren_, container_,          *)
(* scaleContent_, firstLayoutCompleted_) and the part of the host state    *)
(* that the component's calls change (owners, listeners, deferred          *)
(* mutations, collapse state, child transforms, and the layout width the    *)
(* host measured last).  `call' is the host                                *)
(* callback that ran last with its inputs, `effects' the host calls that   *)
(* callback made, in program order.                                        *)
(*                                                                         *)
(* Elements are identified by their index in childNodes; ForeignElement    *)
(* is an element that is not a child of the component.                     *)
(*                                                                         *)
(* Lengths are whole pixels.  The products H*0.75 and H*0.95 of            *)
(* assertPosition_ are compared after scaling both sides by 100, which is  *)
(* the comparison the doubles make whenever H, D and T are whole numbers   *)
(* of this size.                                                           *)
(***************************************************************************)
EXTENDS Integers, Sequences, FiniteSets, TLC

VARIABLES childNodes, scaleAttr, built,
          children_, totalChildren_, container_, scaleContent_,
          firstLayoutCompleted_,
          containerNodes, containerWidth, inFixedLayer, owners,
          listeners, pending, collapsed, attemptCollapses, transform,
          layoutWidth, call, effects

vars == <<childNodes, scaleAttr, built,
          children_, totalChildren_, container_, scaleContent_,
          firstLayoutCompleted_,
          containerNodes, containerWidth, inFixedLayer, owners,
          listeners, pending, collapsed, attemptCollapses, transform,
          layoutWidth, call, effects>>

fields == <<children_, totalChildren_, container_, scaleContent_,
            firstLayoutCompleted_>>

dom == <<childNodes, scaleAttr>>

----------------------------------------------------------------------------
(* Bounds *)

MaxNodes == 3

MaxListeners == 2

MaxPending == 1

MaxTop == 22

MaxQueue == 2

----------------------------------------------------------------------------
(* Node kinds and layouts *)

ELEMENT_NODE == 1

TEXT_NODE == 3

LayoutFIXED == "fixed"

LayoutRESPONSIVE == "responsive"

Whitespace == {" ", "\t", "\n"}

ElementNode(layout) ==
  [nodeType |-> ELEMENT_NODE, textContent |-> <<>>, layout_ |-> layout]

TextNode(text) ==
  [nodeType |-> TEXT_NODE, textContent |-> text, layout_ |-> "none"]

\* a node that is neither an element nor text (a comment, nodeType 8)
CommentNode ==
  [nodeType |-> 8, textContent |-> <<"a">>, layout_ |-> "none"]

TextContents == {<<" ", "\n">>, <<"\t", "a">>}

NodeKinds ==
  {ElementNode(LayoutFIXED), ElementNode(LayoutRESPONSIVE), CommentNode}
    \cup {TextNode(t) : t \in TextContents}

NodeLists == UNION {[1..n -> NodeKinds] : n \in 0..MaxNodes}

ForeignElement == MaxNodes + 2

----------------------------------------------------------------------------
(* Sequence helpers: Array.prototype.filter, indexOf, splice(index, 1) *)

\* nodes.filter(callback), as the indices of the nodes kept; keep[i] is the
\* callback's result for nodes[i]
RECURSIVE FilterIdx(_, _, _)
FilterIdx(nodes, keep, i) ==
  IF i > Len(nodes) THEN <<>>
  ELSE IF keep[i] THEN <<i>> \o FilterIdx(nodes, keep, i + 1)
       ELSE FilterIdx(nodes, keep, i + 1)

indexOf(arr, x) ==
  IF \E i \in 1..Len(arr) : arr[i] = x
  THEN (CHOOSE i \in 1..Len(arr) :
          arr[i] = x /\ \A j \in 1..(i - 1) : arr[j] # x) - 1
  ELSE -1

\* leaves the array as it is
splice1_none(arr, index) == arr

\* removes the element after the one asked for
splice1_next(arr, index) ==
  IF index + 1 >= Len(arr) THEN SubSeq(arr, 1, Len(arr) - 1)
  ELSE [i \in 1..(Len(arr) - 1) |->
          IF i <= index + 1 THEN arr[i] ELSE arr[i + 1]]

\* arr.splice(index, 1): a negative index counts from the end
splice1(arr, index) ==
  LET start == IF index < 0
               THEN (IF Len(arr) + index < 0 THEN 0 ELSE Len(arr) + index)
               ELSE index
  IN  IF start >= Len(arr) THEN arr
      ELSE [i \in 1..(Len(arr) - 1) |->
              IF i <= start THEN arr[i] ELSE arr[i + 1]]

Range(s) == {s[i] : i \in 1..Len(s)}

HasOp(effs, op) == \E i \in 1..Len(effs) : effs[i].op = op

Effect(op, arg, flag) == [op |-> op, arg |-> arg, flag |-> flag]

Call(op, arg) == [op |-> op, arg |-> arg]

----------------------------------------------------------------------------
(* Host collaborators the component reads *)

AllIdx(nodes) == [i \in 1..Len(nodes) |-> i]

IsElement(node) == node.nodeType = ELEMENT_NODE

getRealChildNodes(nodes) == AllIdx(nodes)

getRealChildren(nodes) ==
  FilterIdx(nodes, [i \in 1..Len(nodes) |-> IsElement(nodes[i])], 1)

ElementIds == Range(getRealChildren(childNodes))

----------------------------------------------------------------------------
(* Pure functions of the component *)

\* /\S/.test(text)
NonWhitespaceTest(text) == \E i \in 1..Len(text) : text[i] \notin Whitespace

IsVisibleNode_anyText(node) ==
  IF node.nodeType = ELEMENT_NODE THEN TRUE
  ELSE IF node.nodeType = TEXT_NODE THEN Len(node.textContent) > 0
  ELSE FALSE

IsVisibleNode(node) ==
  IF node.nodeType = ELEMENT_NODE THEN TRUE
  ELSE IF node.nodeType = TEXT_NODE THEN NonWhitespaceTest(node.textContent)
  ELSE FALSE

visibileChildren_elementsOnly(nodes) ==
  FilterIdx(nodes, [i \in 1..Len(nodes) |-> IsElement(nodes[i])], 1)

visibileChildren_(nodes) ==
  FilterIdx(nodes, [i \in 1..Len(nodes) |-> IsVisibleNode(nodes[i])], 1)

isLayoutSupported(layout) == layout = "fixed-height"

assertPosition_strict(H, D, T) ==
  /\ T * 100 >= H * 75
  /\ T * 100 < D * 100 - H * 95

\* TRUE when both userAssert calls of assertPosition_ pass
assertPosition_(H, D, T) ==
  /\ T * 100 >= H * 75
  /\ T * 100 <= D * 100 - H * 95

assertScalable_countOnly(children, nodes) == Len(children) = 1

\* TRUE when both userAssert calls of assertScalable_ pass
assertScalable_(children, nodes) ==
  /\ Len(children) = 1
  /\ nodes[children[1]].layout_ = LayoutFIXED

RECURSIVE GCD(_, _)
GCD(a, b) == IF b = 0 THEN a ELSE GCD(b, a % b)

\* a JS number as <<numerator, denominator>>: <<1, 0>> is Infinity,
\* <<0, 0>> is NaN, any other value is a fraction in lowest terms
Infinity == <<1, 0>>

NaN == <<0, 0>>

Divide(a, b) ==
  IF b = 0 THEN (IF a = 0 THEN NaN ELSE Infinity)
  ELSE <<a \div GCD(a, b), b \div GCD(a, b)>>

MathMin(x, y) ==
  IF x = NaN \/ y = NaN THEN NaN
  ELSE IF x = Infinity THEN y
  ELSE IF y = Infinity THEN x
  ELSE IF x[1] * y[2] <= y[1] * x[2] THEN x ELSE y

scaleCoefficient(viewportWidth, viewportHeight, width, height) ==
  MathMin(Divide(viewportWidth, width), Divide(viewportHeight, height))

----------------------------------------------------------------------------
(* Inputs of the host callbacks *)

\* getLayoutWidth() at the time of the call
Widths == {320}

\* <<viewport height, document scroll height, layout box top>>
Positions == {<<20, 40, 10>>, <<20, 40, 15>>, <<20, 40, 22>>}

ViewportSizes == {<<8, 6>>}

\* Number(child.getAttribute('width' / 'height')); 0 for a missing attribute
DeclaredSizes == {<<4, 3>>, <<0, 3>>, <<0, 0>>}

CollapseTargets == ElementIds \cup {ForeignElement}

----------------------------------------------------------------------------
(* State after the constructor (element not built yet) *)

NoTransform == <<>>

Init ==
  /\ childNodes \in NodeLists
  /\ scaleAttr \in BOOLEAN
  /\ built = FALSE
  /\ children_ = <<>>
  /\ totalChildren_ = 0
  /\ container_ = "null"
  /\ scaleContent_ = FALSE
  /\ firstLayoutCompleted_ = FALSE
  /\ containerNodes = <<>>
  /\ containerWidth = 0
  /\ inFixedLayer = FALSE
  /\ owners = {}
  /\ listeners = 0
  /\ pending = <<>>
  /\ collapsed = FALSE
  /\ attemptCollapses = 0
  /\ transform = [i \in 1..Len(childNodes) |-> NoTransform]
  /\ layoutWidth = 0
  /\ call = Call("constructor", <<>>)
  /\ effects = <<>>

----------------------------------------------------------------------------
(* buildCallback *)

SetAsOwnerEffects(children) ==
  [i \in 1..Len(children) |-> Effect("setAsOwner", <<children[i]>>, TRUE)]

AppendChildEffects(nodes) ==
  [i \in 1..Len(nodes) |-> Effect("appendChild", <<nodes[i]>>, TRUE)]

\* lines 87-95: the value of scaleContent_ after the scale-content block
scaleContentAtBuild(hasAttr, children, nodes) ==
  IF hasAttr THEN (IF assertScalable_(children, nodes) THEN TRUE ELSE FALSE)
  ELSE FALSE

buildCallback ==
  /\ ~built
  /\ LET children == getRealChildren(childNodes)
         nodes == getRealChildNodes(childNodes)
         scalable == assertScalable_(children, childNodes)
     IN  /\ children_' = children
         /\ container_' = "div"
         /\ totalChildren_' = Len(visibileChildren_(childNodes))
         /\ owners' = Range(children)
         /\ scaleContent_' = scaleContentAtBuild(scaleAttr, children, childNodes)
         /\ containerNodes' = nodes
         /\ inFixedLayer' = TRUE
         /\ effects' = SetAsOwnerEffects(children)
                \o (IF scaleAttr /\ ~scalable
                    THEN <<Effect("console.warn", <<>>, TRUE)>> ELSE <<>>)
                \o AppendChildEffects(nodes)
                \o <<Effect("addToFixedLayer", <<>>, FALSE)>>
  /\ built' = TRUE
  /\ call' = Call("buildCallback", <<>>)
  /\ UNCHANGED <<dom, layoutWidth, firstLayoutCompleted_, containerWidth,
                 listeners, pending, collapsed, attemptCollapses, transform>>

----------------------------------------------------------------------------
(* onMeasureChanged, and the deferred mutation it schedules *)

RelayoutEffects_unguarded(firstLayoutCompleted, children) ==
  <<Effect("scheduleLayout", children, TRUE), Effect("listen", <<>>, TRUE)>>

\* lines 120-123
RelayoutEffects(firstLayoutCompleted, children) ==
  IF firstLayoutCompleted
  THEN <<Effect("scheduleLayout", children, TRUE),
         Effect("listen", <<>>, TRUE)>>
  ELSE <<>>

\* applyScaleTransform_(child) with the viewport size vp and the declared
\* size sz it reads; the new value of child.style.transform
applyScaleTransform_(vp, sz) == scaleCoefficient(vp[1], vp[2], sz[1], sz[2])

scheduleWidthMutation_coalesced(queue, width) ==
  IF queue # <<>> THEN queue ELSE Append(queue, width)

\* lines 116-119: the mutation closes over the width read by this call
scheduleWidthMutation(queue, width) == Append(queue, width)

onMeasureChangedBody(width, vp, sz) ==
  /\ layoutWidth' = width
  /\ pending' = scheduleWidthMutation(pending, width)
  /\ listeners' = IF firstLayoutCompleted_ THEN listeners + 1 ELSE listeners
  /\ IF scaleContent_
     THEN IF children_ = <<>>
          \* children_[0] is undefined: child.getAttribute raises a TypeError
          THEN /\ effects' = <<Effect("mutateElement", <<width>>, TRUE)>>
                      \o RelayoutEffects(firstLayoutCompleted_, children_)
                      \o <<Effect("throw", <<>>, TRUE)>>
               /\ UNCHANGED transform
          ELSE /\ effects' = <<Effect("mutateElement", <<width>>, TRUE)>>
                      \o RelayoutEffects(firstLayoutCompleted_, children_)
                      \o <<Effect("transform",
                            <<children_[1]>> \o applyScaleTransform_(vp, sz),
                            TRUE)>>
               /\ transform' = [transform EXCEPT
                                  ![children_[1]] = applyScaleTransform_(vp, sz)]
     ELSE /\ effects' = <<Effect("mutateElement", <<width>>, TRUE)>>
                 \o RelayoutEffects(firstLayoutCompleted_, children_)
          /\ UNCHANGED transform
  /\ UNCHANGED <<dom, built, fields, containerNodes, containerWidth,
                 inFixedLayer, owners, collapsed, attemptCollapses>>

\* onMeasureChanged with getLayoutWidth() drawn from widths, while fewer
\* than cap mutations are pending
onMeasureChangedFor(widths, cap) ==
  /\ built
  /\ Len(pending) < cap
  /\ firstLayoutCompleted_ => listeners < MaxListeners
  /\ \E width \in widths :
       IF scaleContent_ /\ children_ # <<>>
       THEN \E vp \in ViewportSizes, sz \in DeclaredSizes :
              /\ onMeasureChangedBody(width, vp, sz)
              /\ call' = Call("onMeasureChanged", <<width>> \o vp \o sz)
       ELSE /\ onMeasureChangedBody(width, <<0, 0>>, <<0, 0>>)
            /\ call' = Call("onMeasureChanged", <<width>>)

onMeasureChanged == onMeasureChangedFor(Widths, MaxPending)

\* the host runs the oldest deferred mutation: setStyle(container_, 'width')
runMutation ==
  /\ pending # <<>>
  /\ containerWidth' = Head(pending)
  /\ pending' = Tail(pending)
  /\ call' = Call("mutate", <<Head(pending)>>)
  /\ effects' = <<Effect("setStyle", <<Head(pending)>>, TRUE)>>
  /\ UNCHANGED <<dom, layoutWidth, built, fields, containerNodes,
                 inFixedLayer, owners, listeners, collapsed, attemptCollapses,
                 transform>>

----------------------------------------------------------------------------
(* layoutCallback *)

layoutFailureEffects_rethrowOnly == <<Effect("throw", <<>>, TRUE)>>

\* lines 194-200: what the catch block does before the error leaves
layoutFailureEffects ==
  <<Effect("collapse", <<>>, TRUE), Effect("throw", <<>>, TRUE)>>

\* lines 201-202
layoutSuccessEffects(children) ==
  <<Effect("scheduleLayout", children, TRUE), Effect("listen", <<>>, TRUE)>>

layoutCallback(H, D, T) ==
  /\ built
  /\ call' = Call("layoutCallback", <<H, D, T>>)
  /\ IF assertPosition_(H, D, T)
     THEN /\ listeners < MaxListeners
          /\ effects' = layoutSuccessEffects(children_)
          /\ listeners' = listeners + 1
          /\ firstLayoutCompleted_' = TRUE
          /\ UNCHANGED collapsed
     ELSE /\ effects' = layoutFailureEffects
          /\ collapsed' = (collapsed \/ HasOp(layoutFailureEffects, "collapse"))
          /\ UNCHANGED <<listeners, firstLayoutCompleted_>>
  /\ UNCHANGED <<dom, layoutWidth, built, children_, totalChildren_,
                 container_, scaleContent_, containerNodes, containerWidth,
                 inFixedLayer, owners, pending, attemptCollapses, transform>>

----------------------------------------------------------------------------
(* viewportCallback *)

\* a boolean argument in the call record
BoolArg(b) == IF b THEN 1 ELSE 0

updateInViewport_shown(children, inViewport) ==
  <<Effect("updateInViewport", children, TRUE)>>

\* line 131
updateInViewport(children, inViewport) ==
  <<Effect("updateInViewport", children, inViewport)>>

viewportCallback(inViewport) ==
  /\ built
  /\ call' = Call("viewportCallback", <<BoolArg(inViewport)>>)
  /\ effects' = updateInViewport(children_, inViewport)
  /\ UNCHANGED <<dom, layoutWidth, built, fields, containerNodes,
                 containerWidth, inFixedLayer, owners, listeners, pending,
                 collapsed, attemptCollapses, transform>>

----------------------------------------------------------------------------
(* collapsedCallback *)

isTracked_inclusive(index) == index >= -1

isTracked_truthy(index) == index # 0

\* line 252
isTracked(index) == index > -1

countReachedZero_early(total) == total <= 1

\* line 255
countReachedZero(total) == total = 0

attemptCollapseEffects_uncaught(ok) ==
  <<Effect("attemptCollapse", <<>>, ok)>>
    \o (IF ok THEN <<>> ELSE <<Effect("throw", <<>>, TRUE)>>)

\* line 256: a rejection of attemptCollapse() is swallowed by .catch(() => {})
attemptCollapseEffects(ok) == <<Effect("attemptCollapse", <<>>, ok)>>

\* collapsedCallback(child); ok is whether the host's attemptCollapse
\* succeeds when it is requested
collapsedCallback(child, ok) ==
  /\ built
  /\ call' = Call("collapsedCallback", <<child>>)
  /\ LET index == indexOf(children_, child)
     IN  IF isTracked(index)
         THEN /\ children_' = splice1(children_, index)
              /\ totalChildren_' = totalChildren_ - 1
              /\ IF countReachedZero(totalChildren_')
                 THEN /\ attemptCollapses' = attemptCollapses + 1
                      /\ collapsed' = (collapsed \/ ok)
                      /\ effects' = attemptCollapseEffects(ok)
                 ELSE /\ effects' = <<>>
                      /\ UNCHANGED <<attemptCollapses, collapsed>>
         ELSE /\ effects' = <<>>
              /\ UNCHANGED <<children_, totalChildren_, attemptCollapses,
                             collapsed>>
  /\ UNCHANGED <<dom, layoutWidth, built, container_, scaleContent_,
                 firstLayoutCompleted_, containerNodes, containerWidth,
                 inFixedLayer, owners, listeners, pending, transform>>

getChildren == children_

----------------------------------------------------------------------------
(* AmpEvents.BUILT reaches the component's element *)

layoutBuiltChild_Effects_anyTarget(child, vp, sz) ==
  <<Effect("scheduleLayout", <<child>>, TRUE)>>
    \o (IF scaleContent_
        THEN <<Effect("transform",
                 <<child>> \o applyScaleTransform_(vp, sz), TRUE)>>
        ELSE <<>>)

layoutBuiltChild_Effects_alwaysScale(child, vp, sz) ==
  IF child \in owners
  THEN <<Effect("scheduleLayout", <<child>>, TRUE),
         Effect("transform", <<child>> \o applyScaleTransform_(vp, sz), TRUE)>>
  ELSE <<>>

\* layoutBuiltChild_(event) for one registered listener
layoutBuiltChild_Effects(child, vp, sz) ==
  IF child \in owners
  THEN <<Effect("scheduleLayout", <<child>>, TRUE)>>
         \o (IF scaleContent_
             THEN <<Effect("transform",
                      <<child>> \o applyScaleTransform_(vp, sz), TRUE)>>
             ELSE <<>>)
  ELSE <<>>

RECURSIVE Repeat(_, _)
Repeat(s, n) == IF n = 0 THEN <<>> ELSE s \o Repeat(s, n - 1)

\* the event is delivered to every listener the component registered
childBuilt(child, vp, sz) ==
  /\ built
  /\ listeners > 0
  /\ call' = Call("childBuilt",
                  IF child \in owners /\ scaleContent_
                  THEN <<child>> \o vp \o sz ELSE <<child>>)
  /\ effects' = Repeat(layoutBuiltChild_Effects(child, vp, sz), listeners)
  /\ transform' = IF child \in owners /\ scaleContent_
                  THEN [transform EXCEPT ![child] = applyScaleTransform_(vp, sz)]
                  ELSE transform
  /\ UNCHANGED <<dom, layoutWidth, built, fields, containerNodes,
                 containerWidth, inFixedLayer, owners, listeners, pending,
                 collapsed, attemptCollapses>>

----------------------------------------------------------------------------

Next ==
  \/ buildCallback
  \/ onMeasureChanged
  \/ runMutation
  \/ \E p \in Positions : layoutCallback(p[1], p[2], p[3])
  \/ \E inViewport \in BOOLEAN : viewportCallback(inViewport)
  \/ \E child \in CollapseTargets, ok \in BOOLEAN : collapsedCallback(child, ok)
  \/ \E child \in CollapseTargets, vp \in ViewportSizes, sz \in DeclaredSizes :
       childBuilt(child, vp, sz)

Spec == Init /\ [][Next]_vars

----------------------------------------------------------------------------
(* Layout positions on a grid around both bounds, for a small document *)

ViewportHeights == {0, 4, 20}

ScrollHeights == {8, 40}

PositionGrid ==
  {<<H, D, T>> : H \in ViewportHeights, D \in ScrollHeights, T \in 0..MaxTop}

InitPosition == Init /\ Len(childNodes) <= 1

NextPosition ==
  \/ buildCallback
  \/ onMeasureChanged
  \/ runMutation
  \/ \E p \in PositionGrid : layoutCallback(p[1], p[2], p[3])
  \/ \E inViewport \in BOOLEAN : viewportCallback(inViewport)
  \/ \E child \in CollapseTargets, ok \in BOOLEAN : collapsedCallback(child, ok)
  \/ \E child \in CollapseTargets, vp \in ViewportSizes, sz \in DeclaredSizes :
       childBuilt(child, vp, sz)

SpecPosition == InitPosition /\ [][NextPosition]_vars

----------------------------------------------------------------------------
(* Measurement changes with two layout widths and several mutations        *)
(* pending, for a small document                                           *)

MeasureWidths == {320, 480}

InitMeasure == Init /\ Len(childNodes) <= 1

NextMeasure ==
  \/ buildCallback
  \/ onMeasureChangedFor(MeasureWidths, MaxQueue)
  \/ runMutation
  \/ \E p \in Positions : layoutCallback(p[1], p[2], p[3])
  \/ \E inViewport \in BOOLEAN : viewportCallback(inViewport)
  \/ \E child \in CollapseTargets, ok \in BOOLEAN : collapsedCallback(child, ok)
  \/ \E child \in CollapseTargets, vp \in ViewportSizes, sz \in DeclaredSizes :
       childBuilt(child, vp, sz)

SpecMeasure == InitMeasure /\ [][NextMeasure]_vars

----------------------------------------------------------------------------
(* Properties *)

LastCallIs(op) == call.op = op

NonBlankTexts ==
  {i \in 1..Len(childNodes) :
     /\ childNodes[i].nodeType = TEXT_NODE
     /\ \E j \in 1..Len(childNodes[i].textContent) :
          childNodes[i].textContent[j] \notin Whitespace}

ElementsAtBuild == {i \in 1..Len(childNodes) : childNodes[i].nodeType = ELEMENT_NODE}

\* 0.75*H <= T <= D - 0.95*H in exact arithmetic
WithinBounds(H, D, T) == 3 * H <= 4 * T /\ 20 * T <= 20 * D - 19 * H

\* the step is a collapsedCallback(child) that removes child from children_
RemovesTracked ==
  /\ call'.op = "collapsedCallback"
  /\ call'.arg[1] \in Range(children_)
  /\ call'.arg[1] \notin Range(children_')

\* C1: a step requests self-collapse (attemptCollapse) exactly when it is a
\* collapsedCallback that removes a tracked child and whose decrement brings
\* totalChildren_ to zero; no other callback requests it.
C1_CollapseRequestedIffCountReachesZero ==
  [][/\ (call'.op = "collapsedCallback") =>
          ((/\ HasOp(effects', "attemptCollapse")
            /\ attemptCollapses' = attemptCollapses + 1)
             <=> (/\ RemovesTracked
                  /\ totalChildren_' = totalChildren_ - 1
                  /\ totalChildren_' = 0))
     /\ (call'.op # "collapsedCallback") =>
          (/\ ~HasOp(effects', "attemptCollapse")
           /\ attemptCollapses' = attemptCollapses)
     /\ attemptCollapses' \in {attemptCollapses, attemptCollapses + 1}]_vars

C1_Witness ==
  /\ LastCallIs("collapsedCallback")
  /\ HasOp(effects, "attemptCollapse")
  /\ totalChildren_ = 0
  /\ Cardinality(ElementsAtBuild) = 2

\* C2 as stated: built from tracked elements plus non-blank text, once every
\* tracked element has collapsed the count is 0 and self-collapse has been
\* requested exactly once.
C2_Original_CountZeroAfterAllElementsCollapse ==
  (/\ built
   /\ ElementsAtBuild # {}
   /\ NonBlankTexts # {}
   /\ children_ = <<>>)
    => (totalChildren_ = 0 /\ attemptCollapses = 1)

\* C2 amended: once every tracked element has collapsed, totalChildren_ equals
\* the number of non-blank text nodes counted at build; self-collapse has been
\* requested exactly once when that number is 0 and never otherwise.
C2_CountAfterAllElementsCollapse ==
  (/\ built
   /\ ElementsAtBuild # {}
   /\ children_ = <<>>)
    => /\ totalChildren_ = Cardinality(NonBlankTexts)
       /\ attemptCollapses = (IF NonBlankTexts = {} THEN 1 ELSE 0)

C2_Witness ==
  /\ built
  /\ Cardinality(ElementsAtBuild) = 2
  /\ Cardinality(NonBlankTexts) = 1
  /\ children_ = <<>>
  /\ totalChildren_ = 1
  /\ attemptCollapses = 0

\* C3: layoutCallback accepts the position (no error raised) iff
\* 0.75*H <= T <= D - 0.95*H, both bounds inclusive.
C3_PositionAcceptedIffWithinBounds ==
  LastCallIs("layoutCallback") =>
    LET H == call.arg[1]
        D == call.arg[2]
        T == call.arg[3]
    IN  (~HasOp(effects, "throw")) <=> WithinBounds(H, D, T)

C3_Witness ==
  /\ LastCallIs("layoutCallback")
  /\ ~HasOp(effects, "throw")
  /\ call.arg = <<20, 40, 21>>

\* C4: a layoutCallback whose position check fails collapses the component and
\* only then raises, schedules no child layout, registers no listener and
\* leaves firstLayoutCompleted_ as it was; while firstLayoutCompleted_ is false
\* an onMeasureChanged schedules no child layout and registers no listener,
\* and only a layoutCallback that passes the check sets the flag.
C4_FailedLayoutCollapsesAndIsTerminal ==
  [][/\ (call'.op = "layoutCallback"
          /\ ~WithinBounds(call'.arg[1], call'.arg[2], call'.arg[3])) =>
          (/\ effects' = <<Effect("collapse", <<>>, TRUE),
                           Effect("throw", <<>>, TRUE)>>
           /\ collapsed'
           /\ listeners' = listeners
           /\ firstLayoutCompleted_' = firstLayoutCompleted_)
     /\ (call'.op = "onMeasureChanged" /\ ~firstLayoutCompleted_) =>
          (/\ ~HasOp(effects', "scheduleLayout")
           /\ ~HasOp(effects', "listen")
           /\ listeners' = listeners)
     /\ (~firstLayoutCompleted_ /\ firstLayoutCompleted_') =>
          (call'.op = "layoutCallback" /\ ~HasOp(effects', "throw"))]_vars

C4_Witness ==
  /\ LastCallIs("layoutCallback")
  /\ HasOp(effects, "throw")
  /\ collapsed
  /\ ~firstLayoutCompleted_
  /\ listeners = 0
  /\ children_ # <<>>

\* C5: after buildCallback totalChildren_ is never negative, never increases,
\* and changes only by a decrement of exactly 1 in a collapsedCallback that
\* removes a tracked child.
C5_CountNonNegativeAndOnlyDecremented ==
  /\ [](built => totalChildren_ >= 0)
  /\ [][built =>
          \/ totalChildren_' = totalChildren_
          \/ (totalChildren_' = totalChildren_ - 1 /\ RemovesTracked)]_vars

C5_Witness ==
  /\ built
  /\ LastCallIs("collapsedCallback")
  /\ totalChildren_ = 1
  /\ Len(children_) = 1
  /\ Cardinality(ElementsAtBuild) = 3

StrictlyIncreasing(seq) ==
  \A i, j \in 1..Len(seq) : i < j => seq[i] < seq[j]

\* C6: after buildCallback children_ (getChildren) is a sub-sequence of the
\* element children captured at build, in their order and without duplicates;
\* no step adds a member and a member leaves only in collapsedCallback for
\* that very child.
C6_TrackedChildrenOnlyShrink ==
  /\ [](built => /\ Range(getChildren) \subseteq ElementsAtBuild
                 /\ StrictlyIncreasing(getChildren))
  /\ [][built =>
          /\ Range(children_') \subseteq Range(children_)
          /\ (Range(children_') # Range(children_)) =>
               (/\ call'.op = "collapsedCallback"
                /\ Range(children_) \ Range(children_') = {call'.arg[1]})]_vars

C6_Witness ==
  /\ built
  /\ LastCallIs("collapsedCallback")
  /\ Cardinality(ElementsAtBuild) = 3
  /\ Len(getChildren) = 2
  /\ call.arg[1] \in ElementsAtBuild
  /\ call.arg[1] > getChildren[1]
  /\ call.arg[1] < getChildren[2]

\* C7: collapsedCallback(c) for an element c that is not in children_ (a
\* second call for the same child included) leaves children_ and
\* totalChildren_ unchanged and requests no self-collapse; after any
\* collapsedCallback(c), c is not in children_.
C7_CollapsedCallbackIdempotent ==
  [][(call'.op = "collapsedCallback") =>
       /\ call'.arg[1] \notin Range(children_')
       /\ (call'.arg[1] \notin Range(children_)) =>
            (/\ children_' = children_
             /\ totalChildren_' = totalChildren_
             /\ attemptCollapses' = attemptCollapses
             /\ collapsed' = collapsed
             /\ effects' = <<>>)]_vars

C7_Witness ==
  /\ LastCallIs("collapsedCallback")
  /\ call.arg[1] \in ElementsAtBuild
  /\ effects = <<>>
  /\ totalChildren_ = 0
  /\ attemptCollapses = 1

\* C8: after buildCallback scaleContent_ is true iff the element has the
\* scale-content attribute, exactly one element child was captured and that
\* child's layout is FIXED; with the attribute present and a precondition
\* violated buildCallback raises nothing and still computes the count, sets
\* the owners, reparents the child nodes and adds the container to the fixed
\* layer.
C8_ScalingEnabledIffSingleFixedChild ==
  /\ built =>
       (scaleContent_ <=>
          /\ scaleAttr
          /\ Cardinality(ElementsAtBuild) = 1
          /\ \A i \in ElementsAtBuild : childNodes[i].layout_ = LayoutFIXED)
  /\ (LastCallIs("buildCallback") /\ scaleAttr /\ ~scaleContent_) =>
       /\ built
       /\ ~HasOp(effects, "throw")
       /\ totalChildren_ = Cardinality(ElementsAtBuild \cup NonBlankTexts)
       /\ Range(children_) = ElementsAtBuild
       /\ owners = ElementsAtBuild
       /\ container_ = "div"
       /\ containerNodes = [i \in 1..Len(childNodes) |-> i]
       /\ inFixedLayer

C8_Witness ==
  /\ LastCallIs("buildCallback")
  /\ scaleAttr
  /\ ~scaleContent_
  /\ Cardinality(ElementsAtBuild) = 1
  /\ Len(childNodes) = 2
  /\ inFixedLayer

\* C9: the visible-children filter returns exactly the element nodes and the
\* text nodes with a non-whitespace character, in their original order;
\* right after buildCallback totalChildren_ is the length of that list and
\* children_ holds exactly the elements.
C9_VisibleChildrenFilter ==
  /\ Range(visibileChildren_(childNodes)) = ElementsAtBuild \cup NonBlankTexts
  /\ StrictlyIncreasing(visibileChildren_(childNodes))
  /\ LastCallIs("buildCallback") =>
       /\ totalChildren_ = Len(visibileChildren_(childNodes))
       /\ totalChildren_ = Cardinality(ElementsAtBuild \cup NonBlankTexts)
       /\ Range(children_) = ElementsAtBuild
       /\ Len(children_) = Cardinality(ElementsAtBuild)

C9_Witness ==
  /\ LastCallIs("buildCallback")
  /\ Len(childNodes) = 3
  /\ childNodes[1] = TextNode(<<" ", "\n">>)
  /\ childNodes[2] = TextNode(<<"\t", "a">>)
  /\ childNodes[3].nodeType = ELEMENT_NODE
  /\ totalChildren_ = 2
  /\ children_ = <<3>>

\* the arguments of the scheduleLayout calls among effs, in order
RECURSIVE ScheduledBy(_)
ScheduledBy(effs) ==
  IF effs = <<>> THEN <<>>
  ELSE (IF Head(effs).op = "scheduleLayout" THEN <<Head(effs).arg>> ELSE <<>>)
         \o ScheduledBy(Tail(effs))

\* C10: an onMeasureChanged after first layout completed schedules layout
\* once, for exactly the children tracked at that moment; an onMeasureChanged
\* before that schedules no child layout and registers no child-built
\* listener.
C10_MeasureReschedulesTrackedChildren ==
  [][(call'.op = "onMeasureChanged") =>
       IF firstLayoutCompleted_
       THEN ScheduledBy(effects') = <<children_>>
       ELSE /\ ScheduledBy(effects') = <<>>
            /\ ~HasOp(effects', "listen")
            /\ listeners' = listeners]_vars

C10_Witness ==
  /\ LastCallIs("onMeasureChanged")
  /\ firstLayoutCompleted_
  /\ Cardinality(ElementsAtBuild) = 2
  /\ Len(children_) = 1
  /\ ScheduledBy(effects) = <<children_>>

\* C11: viewportCallback(inViewport) makes one updateInViewport call, with the
\* children tracked at that moment and the boolean it was given, and changes
\* none of children_, totalChildren_, scaleContent_, firstLayoutCompleted_.
C11_ViewportForwardedToTrackedChildren ==
  [][(call'.op = "viewportCallback") =>
       /\ effects' = <<Effect("updateInViewport", children_,
                              call'.arg[1] = 1)>>
       /\ children_' = children_
       /\ totalChildren_' = totalChildren_
       /\ scaleContent_' = scaleContent_
       /\ firstLayoutCompleted_' = firstLayoutCompleted_
       /\ container_' = container_]_vars

C11_Witness ==
  /\ LastCallIs("viewportCallback")
  /\ call.arg = <<0>>
  /\ Cardinality(ElementsAtBuild) = 2
  /\ Len(children_) = 1
  /\ effects = <<Effect("updateInViewport", children_, FALSE)>>

\* C12: scaleContent_ is decided by buildCallback and changed by no later
\* callback; when it is false after build no callback applies a scale
\* transform and every child's style.transform stays unset.
C12_NoTransformUnlessScalingEnabled ==
  /\ []((built /\ ~scaleContent_) =>
          /\ ~HasOp(effects, "transform")
          /\ \A i \in 1..Len(childNodes) : transform[i] = NoTransform)
  /\ [][built => scaleContent_' = scaleContent_]_vars

C12_Witness ==
  /\ built
  /\ scaleAttr
  /\ ~scaleContent_
  /\ LastCallIs("childBuilt")
  /\ call.arg[1] \in owners
  /\ HasOp(effects, "scheduleLayout")

\* k * f and x <= k for a JS number f, x = <<numerator, denominator>> and a
\* whole number k, as JS evaluates them (0 * Infinity is NaN; a comparison
\* with NaN is false)
TimesNum(k, f) ==
  IF f = NaN THEN NaN
  ELSE IF f = Infinity THEN (IF k = 0 THEN NaN ELSE Infinity)
  ELSE <<k * f[1], f[2]>>

LeqNum(x, k) ==
  IF x = NaN \/ x = Infinity THEN FALSE ELSE x[1] <= k * x[2]

EqNum(x, k) ==
  IF x = NaN \/ x = Infinity THEN FALSE ELSE x[1] = k * x[2]

\* the scale transforms of the last call, as
\* <<factor, viewport width, viewport height, child width, child height>>
AppliedTransforms ==
  {<<<<effects[i].arg[2], effects[i].arg[3]>>,
     call.arg[2], call.arg[3], call.arg[4], call.arg[5]>> :
     i \in {j \in 1..Len(effects) : effects[j].op = "transform"}}

\* C13 as stated: every scale transform applied uses the factor
\* min(viewportWidth / childWidth, viewportHeight / childHeight) of the
\* declared size and the viewport size read by that call (viewport 8x6 and
\* child 4x3, the example's sizes in units of 100, give 2), and with it the
\* child fits the viewport: childWidth * factor <= viewportWidth and
\* childHeight * factor <= viewportHeight.
C13_ScaledChildFitsViewport ==
  \A t \in AppliedTransforms :
    LET f == t[1]
        vw == t[2]
        vh == t[3]
        w == t[4]
        h == t[5]
    IN  /\ LeqNum(TimesNum(w, f), vw)
        /\ LeqNum(TimesNum(h, f), vh)
        /\ EqNum(TimesNum(w, f), vw) \/ EqNum(TimesNum(h, f), vh)
        /\ (<<vw, vh, w, h>> = <<8, 6, 4, 3>>) => f = <<2, 1>>

\* the last call was an onMeasureChanged that applied the scale transform to
\* a child that is tracked, and raised nothing
MeasureScaledTrackedChild ==
  /\ ~HasOp(effects, "throw")
  /\ \E i \in 1..Len(effects) :
       /\ effects[i].op = "transform"
       /\ effects[i].arg[1] \in Range(children_)

\* C14 as stated: in every state after buildCallback, scaleContent_ implies
\* that children_ has exactly one member, so every onMeasureChanged under
\* scaling applies the transform to an existing tracked child.
C14_SingleChildWhileScaling ==
  /\ (built /\ scaleContent_) => Len(children_) = 1
  /\ (LastCallIs("onMeasureChanged") /\ scaleContent_) =>
       MeasureScaledTrackedChild

\* C15 as stated: the child-built listener is registered once, at layout
\* time: after any number of onMeasureChanged calls the element carries at
\* most one child-built subscription, and one child-built event from an owned
\* child schedules that child's layout exactly once.
C15_SingleChildBuiltSubscription ==
  /\ LastCallIs("onMeasureChanged") => listeners <= 1
  /\ (LastCallIs("childBuilt") /\ call.arg[1] \in owners) =>
       ScheduledBy(effects) = <<<<call.arg[1]>>>>

\* the widths of the mutateElement calls among effs, in order
RECURSIVE MutationsBy(_)
MutationsBy(effs) ==
  IF effs = <<>> THEN <<>>
  ELSE (IF Head(effs).op = "mutateElement" THEN Head(effs).arg ELSE <<>>)
         \o MutationsBy(Tail(effs))

\* C16: each onMeasureChanged schedules exactly one deferred mutation, which
\* carries the layout width read by that call; with the mutations run in
\* scheduling order, whenever none is pending after a measurement the
\* container's width is the width of the most recent onMeasureChanged.
C16_ContainerWidthFollowsLastMeasure ==
  /\ [][(call'.op = "onMeasureChanged") =>
          /\ layoutWidth' = call'.arg[1]
          /\ MutationsBy(effects') = <<call'.arg[1]>>
          /\ pending' = Append(pending, call'.arg[1])]_vars
  /\ []((built /\ pending = <<>> /\ layoutWidth # 0) =>
          containerWidth = layoutWidth)

C16_Witness ==
  /\ LastCallIs("mutate")
  /\ pending = <<>>
  /\ containerWidth = 480
  /\ layoutWidth = 480
  /\ firstLayoutCompleted_

\* C17: firstLayoutCompleted_ becomes true only in a layoutCallback whose
\* position is within bounds, and every scheduleLayout call (and every
\* child-built subscription) happens in or after such a call; the child-built
\* handler schedules layout for the event's target, and only for it, when the
\* target's owner is this element, and otherwise does nothing.
C17_LayoutScheduledOnlyAfterAcceptedPosition ==
  /\ [](HasOp(effects, "scheduleLayout") => firstLayoutCompleted_)
  /\ [](listeners > 0 => firstLayoutCompleted_)
  /\ [][(~firstLayoutCompleted_ /\ firstLayoutCompleted_') =>
          /\ call'.op = "layoutCallback"
          /\ WithinBounds(call'.arg[1], call'.arg[2], call'.arg[3])]_vars
  /\ [][(call'.op = "childBuilt") =>
          IF call'.arg[1] \in owners
          THEN /\ ScheduledBy(effects') # <<>>
               /\ \A i \in 1..Len(ScheduledBy(effects')) :
                    ScheduledBy(effects')[i] = <<call'.arg[1]>>
          ELSE /\ effects' = <<>>
               /\ transform' = transform
               /\ children_' = children_
               /\ totalChildren_' = totalChildren_]_vars

C17_Witness ==
  /\ LastCallIs("childBuilt")
  /\ call.arg[1] \in owners
  /\ call.arg[1] \notin Range(children_)
  /\ ScheduledBy(effects) = <<<<call.arg[1]>>>>
  /\ firstLayoutCompleted_

\* C18: after buildCallback totalChildren_ minus the length of children_ is
\* always the number of non-blank text nodes counted at build (so
\* totalChildren_ >= Len(children_), and children_ is empty when the count is
\* 0); self-collapse is requested at most once, and once the count is 0 no
\* callback changes children_ or totalChildren_.
C18_CountMinusTrackedIsConstant ==
  /\ [](built =>
          /\ totalChildren_ - Len(children_) = Cardinality(NonBlankTexts)
          /\ totalChildren_ >= Len(children_)
          /\ (totalChildren_ = 0 => children_ = <<>>))
  /\ [](attemptCollapses <= 1)
  /\ [][(built /\ totalChildren_ = 0) =>
          (children_' = children_ /\ totalChildren_' = totalChildren_)]_vars

C18_Witness ==
  /\ built
  /\ Cardinality(ElementsAtBuild) = 2
  /\ NonBlankTexts = {}
  /\ totalChildren_ = 0
  /\ attemptCollapses = 1
  /\ LastCallIs("viewportCallback")

\* C19: a collapsedCallback that brings the count to zero makes one
\* attemptCollapse request and surfaces no error whether the host accepts or
\* rejects it; the component's fields after it do not depend on the outcome
\* (the child is gone from children_, totalChildren_ is 0, the other fields
\* are unchanged); once requested, self-collapse is never requested again.
C19_FailedSelfCollapseIsSwallowed ==
  /\ [][(call'.op = "collapsedCallback" /\ HasOp(effects', "attemptCollapse")) =>
          /\ Len(effects') = 1
          /\ ~HasOp(effects', "throw")
          /\ totalChildren_' = 0
          /\ Range(children_') = Range(children_) \ {call'.arg[1]}
          /\ Len(children_') = Len(children_) - 1
          /\ StrictlyIncreasing(children_')
          /\ scaleContent_' = scaleContent_
          /\ firstLayoutCompleted_' = firstLayoutCompleted_
          /\ container_' = container_
          /\ collapsed' = (collapsed \/ effects'[1].flag)]_vars
  /\ [][(attemptCollapses >= 1) => attemptCollapses' = attemptCollapses]_vars

C19_Witness ==
  /\ LastCallIs("collapsedCallback")
  /\ effects = <<Effect("attemptCollapse", <<>>, FALSE)>>
  /\ ~collapsed
  /\ totalChildren_ = 0
  /\ children_ = <<>>
  /\ attemptCollapses = 1

====
